---- MODULE Spec2Model ----
(***************************************************************************)
(* Model of react_mc.py: a checker for reactive (GR(1)) LTL formulas       *)
(* GF f -> GF g over the BDD-encoded FSM of a NuSMV model.                 *)
(*                                                                         *)
(* State sets (BDDs) are modelled as explicit sets of states, the FSM as a *)
(* record of its initial states, its transition relation and the           *)
(* valuation of its atoms, formula trees (pynusmv Spec) as records         *)
(* [type, car, cdr], and every Python function as an operator or as a      *)
(* group of actions (one per loop iteration) translated from its code.     *)
(***************************************************************************)
EXTENDS Integers, FiniteSets, Sequences, TLC

(***************************************************************************)
(* Bounds of the model.                                                    *)
(***************************************************************************)
NumStates == 3      \* states of the FSM
MaxEdges  == 4      \* transitions of the FSM handed to the fixpoint algorithms
MainEdges == 2      \* transitions of the FSM loaded by the main program
MaxProps  == 2      \* properties the main loop iterates over
MaxDepth  == 2      \* depth of the formula trees handed to the classifier

States == 1..NumStates
Atoms  == {"p", "q"}

(***************************************************************************)
(* Formula trees.                                                          *)
(***************************************************************************)
Nil == [type |-> "NIL"]

Atom(n)       == [type |-> "ATOM", name |-> n]
Leaf(t)       == [type |-> t, car |-> Nil, cdr |-> Nil]
Un(t, c)      == [type |-> t, car |-> c, cdr |-> Nil]
Bin(t, l, r)  == [type |-> t, car |-> l, cdr |-> r]

\* Python values that are not formula trees
PyNone  == [py |-> "None"]
PyFalse == [py |-> "False"]
PyMinusOne == [py |-> "-1"]

basicTypes == {"ATOM", "NUMBER", "TRUE", "FALSE", "DOT",
               "EQUAL", "NOTEQUAL", "LT", "GT", "LE", "GE"}

booleanOp == {"AND", "OR", "XOR", "XNOR", "IMPLIES", "IFF"}

specTypes == basicTypes \cup booleanOp \cup
             {"LTLSPEC", "CONTEXT", "NOT", "NEXT", "OP_GLOBAL", "OP_FUTURE", "UNTIL"}

RECURSIVE is_boolean_formula(_)
is_boolean_formula(spec) ==
    IF spec.type \in basicTypes THEN TRUE
    ELSE IF spec.type = "NOT" THEN is_boolean_formula(spec.car)
    ELSE IF spec.type \in booleanOp
         THEN is_boolean_formula(spec.car) /\ is_boolean_formula(spec.cdr)
    ELSE FALSE

check_GF_formula(spec) ==
    IF spec.type # "OP_GLOBAL" THEN PyFalse
    ELSE IF spec.car.type # "OP_FUTURE" THEN PyFalse
    ELSE IF is_boolean_formula(spec.car.car) THEN spec.car.car
    ELSE PyNone

\* None, or the pair (f_formula, g_formula)
parse_react(spec) ==
    IF spec.type # "CONTEXT" THEN PyNone
    ELSE IF spec.cdr.type # "IMPLIES" THEN PyNone
    ELSE LET f_formula == check_GF_formula(spec.cdr.car)
             g_formula == check_GF_formula(spec.cdr.cdr)
         IN  IF f_formula = PyNone THEN PyNone
             ELSE IF g_formula = PyNone THEN PyNone
             ELSE [f |-> f_formula, g |-> g_formula]

(***************************************************************************)
(* The symbolic FSM and the BDD operations the checker uses.               *)
(***************************************************************************)
\* fsm.post(S): the states with a predecessor in S
post(fsm, S) == {t \in States : \E s \in S : <<s, t>> \in fsm.trans}

\* fsm.pre(S): the states with a successor in S
pre(fsm, S) == {s \in States : \E t \in S : <<s, t>> \in fsm.trans}

\* the formulas pynusmv.mc.eval_simple_expression can turn into a BDD:
\* boolean combinations of the model's boolean atoms
RECURSIVE CanEval(_)
CanEval(spec) ==
    IF "py" \in DOMAIN spec THEN FALSE
    ELSE IF spec.type = "ATOM" THEN spec.name \in Atoms
    ELSE IF spec.type \in {"TRUE", "FALSE"} THEN TRUE
    ELSE IF spec.type = "NOT" THEN CanEval(spec.car)
    ELSE IF spec.type \in booleanOp \cup {"EQUAL", "NOTEQUAL"}
         THEN CanEval(spec.car) /\ CanEval(spec.cdr)
    ELSE FALSE

RECURSIVE spec_to_bdd(_, _)
spec_to_bdd(fsm, spec) ==
    IF spec.type = "ATOM" THEN fsm.label[spec.name]
    ELSE IF spec.type = "TRUE" THEN States
    ELSE IF spec.type = "FALSE" THEN {}
    ELSE IF spec.type = "NOT" THEN States \ spec_to_bdd(fsm, spec.car)
    ELSE LET l == spec_to_bdd(fsm, spec.car)
             r == spec_to_bdd(fsm, spec.cdr)
         IN  IF spec.type = "AND" THEN l \cap r
             ELSE IF spec.type = "OR" THEN l \cup r
             ELSE IF spec.type \in {"XOR", "NOTEQUAL"} THEN (l \ r) \cup (r \ l)
             ELSE IF spec.type \in {"XNOR", "IFF", "EQUAL"}
                  THEN States \ ((l \ r) \cup (r \ l))
             ELSE (States \ l) \cup r          \* IMPLIES

\* ~spec: Spec.__invert__ on a formula, int.__invert__ on the bool False
Invert(spec) ==
    IF spec = PyFalse THEN PyMinusOne ELSE Un("NOT", spec)

(***************************************************************************)
(* check_persistently has no loop: its outcome is a function of its        *)
(* arguments.  The name `pre` it reads at lines 202 and 204 is bound       *)
(* nowhere (no local, no global, no import), so reaching line 202 raises   *)
(* NameError.                                                              *)
(***************************************************************************)
Return(v) == [kind |-> "return", value |-> v]
Raise(e)  == [kind |-> "raise", exc |-> e]

check_persistently(fsm, reach_, spec) ==
    IF ~CanEval(spec) THEN Raise("NuSMVError")
    ELSE LET bdd_spec == spec_to_bdd(fsm, spec)
         IN  IF ~(reach_ \cap bdd_spec # {}) THEN Return(FALSE)
             ELSE Raise("NameError")

(***************************************************************************)
(* Inputs: the loaded models and the properties of their databases.        *)
(***************************************************************************)
\* up to a renaming of the states, the initial states are 1..k
Relations == {T \in SUBSET (States \X States) : Cardinality(T) <= MaxEdges}

MainRelations == {T \in Relations : Cardinality(T) <= MainEdges}

BddFsm(k, T, L) == [init |-> 1..k, trans |-> T, label |-> L]

GF(x) == Un("OP_GLOBAL", Un("OP_FUTURE", x))
Ctx(x) == Bin("CONTEXT", Nil, x)

\* the sides of the implication: GF of a boolean formula, GF of a formula that
\* is not boolean, and a formula that is not of the shape GF
SpecSides == {GF(Atom("p")), GF(Atom("q")), GF(Un("NEXT", Atom("p"))),
              Un("OP_FUTURE", Un("OP_GLOBAL", Atom("p")))}

SpecExprs == {Ctx(Bin("IMPLIES", l, r)) : l \in SpecSides, r \in SpecSides}
             \cup {Ctx(Bin("AND", GF(Atom("p")), GF(Atom("q")))),
                   Bin("IMPLIES", GF(Atom("p")), GF(Atom("q")))}

PropDatabase == [type : {"LTL"}, expr : SpecExprs]
                \cup {[type |-> "CTL", expr |-> Ctx(Un("AG", Atom("p")))]}

NoProp == [type |-> "none", expr |-> Nil]

(***************************************************************************)
(* State.                                                                  *)
(***************************************************************************)
VARIABLES
    bddFsm,      \* pynusmv.glob.prop_database().master.bddFsm
    prop,        \* the property the main loop is at
    nprops,      \* properties taken from the database so far
    pc,          \* the statement the interpreter is at
    f_formula, g_formula,         \* check_react_spec
    f_liveness,                   \* check_react_spec
    reach, new,                   \* compute_recheability; new also check_liveness
    recur, pre_reach,             \* check_liveness
    ret,         \* the value the last BDD-valued checker returned (is_true())
    result,      \* the value the last classifier call returned
    report,      \* what the main loop printed for prop
    raised,      \* the exception that ended the program, or "none"
    outer        \* iterations of the outer loop of check_liveness so far

vars == <<bddFsm, prop, nprops, pc, f_formula, g_formula, f_liveness, reach, new,
          recur, pre_reach, ret, result, report, raised, outer>>

frame == <<f_formula, g_formula, f_liveness>>
sets  == <<reach, new, recur, pre_reach>>

Rest(p) ==
    /\ pc = p
    /\ prop = NoProp /\ nprops = 0
    /\ f_formula = Nil /\ g_formula = Nil /\ f_liveness = FALSE
    /\ reach = {} /\ new = {} /\ recur = {} /\ pre_reach = {}
    /\ ret = FALSE /\ result = Nil /\ report = "none" /\ raised = "none" /\ outer = 0

\* the state after lines 217-221: a model is loaded and compiled
Init ==
    /\ \E k \in 0..NumStates, T \in MainRelations, L \in [Atoms -> SUBSET States] :
          bddFsm = BddFsm(k, T, L)
    /\ Rest("main")

(***************************************************************************)
(* compute_recheability (lines 156-162)                                    *)
(***************************************************************************)
\* lines 157-158
EnterReach ==
    /\ reach' = bddFsm.init
    /\ new' = bddFsm.init
    /\ pc' = "reach_loop"

\* ReachStep with the image taken backwards (pre for post)
ReachStep_Pre ==
    /\ pc = "reach_loop" /\ new # {}
    /\ new' = pre(bddFsm, new) \ reach
    /\ reach' = reach \cup new'
    /\ UNCHANGED <<bddFsm, prop, nprops, pc, frame, recur, pre_reach, ret, result,
                   report, raised, outer>>

\* ReachStep with the frontier not reduced by reach
ReachStep_NoDiff ==
    /\ pc = "reach_loop" /\ new # {}
    /\ new' = post(bddFsm, new)
    /\ reach' = reach \cup new'
    /\ UNCHANGED <<bddFsm, prop, nprops, pc, frame, recur, pre_reach, ret, result,
                   report, raised, outer>>

\* lines 159-161: one iteration of the loop
ReachStep ==
    /\ pc = "reach_loop" /\ new # {}
    /\ new' = post(bddFsm, new) \ reach
    /\ reach' = reach \cup new'
    /\ UNCHANGED <<bddFsm, prop, nprops, pc, frame, recur, pre_reach, ret, result,
                   report, raised, outer>>

\* lines 159, 162: the loop ends, return reach
ReachReturn ==
    /\ pc = "reach_loop" /\ new = {}
    /\ pc' = "reach_ret"
    /\ UNCHANGED <<bddFsm, prop, nprops, frame, sets, ret, result, report, raised, outer>>

(***************************************************************************)
(* check_liveness (lines 164-186)                                          *)
(***************************************************************************)
\* lines 169-170, entered with the caller's reach
EnterLiveness(spec) ==
    IF CanEval(spec)
    THEN /\ recur' = reach \cap spec_to_bdd(bddFsm, spec)
         /\ pc' = "live_outer"
         /\ raised' = raised
    ELSE /\ recur' = recur
         /\ pc' = "raised"
         /\ raised' = "NuSMVError"

\* lines 171, 175-176: an iteration of the outer loop starts
LiveOuterEnter ==
    /\ pc = "live_outer" /\ recur # {}
    /\ pre_reach' = {}
    /\ new' = pre(bddFsm, recur)
    /\ pc' = "live_inner"
    /\ outer' = outer + 1
    /\ UNCHANGED <<bddFsm, prop, nprops, frame, reach, recur, ret, result, report, raised>>

\* lines 171, 186: recur is empty, return BDD.false()
LiveOuterExit ==
    /\ pc = "live_outer" /\ recur = {}
    /\ ret' = FALSE
    /\ pc' = "live_ret"
    /\ UNCHANGED <<bddFsm, prop, nprops, frame, sets, result, report, raised, outer>>

\* LiveInnerStep with recur.intersected(pre_reach) for recur.entailed(pre_reach)
LiveInnerStep_Intersected ==
    /\ pc = "live_inner" /\ new # {}
    /\ pre_reach' = pre_reach \cup new
    /\ IF recur \cap pre_reach' # {}
       THEN /\ ret' = TRUE
            /\ pc' = "live_ret"
            /\ new' = new
       ELSE /\ new' = pre(bddFsm, new) \ pre_reach'
            /\ UNCHANGED <<ret, pc>>
    /\ UNCHANGED <<bddFsm, prop, nprops, frame, reach, recur, result, report, raised, outer>>

\* lines 177-184: one iteration of the inner loop
LiveInnerStep ==
    /\ pc = "live_inner" /\ new # {}
    /\ pre_reach' = pre_reach \cup new
    /\ IF recur \subseteq pre_reach'
       THEN /\ ret' = TRUE
            /\ pc' = "live_ret"
            /\ new' = new
       ELSE /\ new' = pre(bddFsm, new) \ pre_reach'
            /\ UNCHANGED <<ret, pc>>
    /\ UNCHANGED <<bddFsm, prop, nprops, frame, reach, recur, result, report, raised, outer>>

\* lines 177, 185: the inner loop ends, recur shrinks
LiveInnerExit ==
    /\ pc = "live_inner" /\ new = {}
    /\ recur' = recur \cap pre_reach
    /\ pc' = "live_outer"
    /\ UNCHANGED <<bddFsm, prop, nprops, frame, reach, new, pre_reach, ret, result,
                   report, raised, outer>>

(***************************************************************************)
(* check_react_spec (lines 130-151)                                        *)
(***************************************************************************)
\* lines 136-141: unpacking None raises TypeError; otherwise line 138 tests the
\* unpacked f_formula and compute_recheability is entered
CheckReactSpec ==
    /\ pc = "check_react_spec"
    /\ LET parsed == parse_react(prop.expr)
       IN  IF parsed = PyNone
           THEN /\ pc' = "raised" /\ raised' = "TypeError"
                /\ UNCHANGED <<frame, sets, report>>
           ELSE /\ f_formula' = parsed.f /\ g_formula' = parsed.g
                /\ IF parsed.f = PyNone
                   THEN \* return None; line 232 then subscripts None
                        /\ pc' = "raised" /\ raised' = "TypeError"
                        /\ report' = "not a GR(1) formula, skipping"
                        /\ UNCHANGED <<reach, new>>
                   ELSE EnterReach /\ UNCHANGED <<report, raised>>
                /\ UNCHANGED <<f_liveness, recur, pre_reach>>
    /\ UNCHANGED <<bddFsm, prop, nprops, ret, result, outer>>

\* lines 141-142: reach returned, check_liveness(fsm, reach, f_formula) entered
ReactCallLiveness ==
    /\ pc = "reach_ret"
    /\ EnterLiveness(f_formula)
    /\ new' = {} /\ outer' = 0
    /\ UNCHANGED <<bddFsm, prop, nprops, frame, reach, pre_reach, ret, result, report>>

\* lines 142-151: f_liveness returned, check_persistently(fsm, reach, ~g_formula),
\* res = ~(f_liveness & g_persitent), return (res.is_true(), ...);
\* lines 228-234: the main loop prints res[0].  The calls of NuSMV's own LTL
\* checker (lines 146, 151) only add its answer to what is printed.
ReactFinish ==
    /\ pc = "live_ret"
    /\ f_liveness' = ret
    /\ LET g_persitent == check_persistently(bddFsm, reach, Invert(g_formula))
       IN  IF g_persitent.kind = "raise"
           THEN /\ pc' = "raised" /\ raised' = g_persitent.exc
                /\ report' = report
           ELSE /\ pc' = "main" /\ raised' = raised
                /\ report' = IF ~(ret /\ g_persitent.value) THEN "True" ELSE "False"
    /\ new' = {} /\ recur' = {} /\ pre_reach' = {}
    /\ UNCHANGED <<bddFsm, prop, nprops, f_formula, g_formula, reach, ret, result, outer>>

(***************************************************************************)
(* __main__ (lines 222-234)                                                *)
(***************************************************************************)
\* lines 222-228: the next property of the database
MainNext ==
    /\ pc = "main" /\ nprops < MaxProps
    /\ \E next \in PropDatabase :
          /\ prop' = next
          /\ IF next.type # "LTL"
             THEN pc' = "main" /\ report' = "not LTLSPEC, skipping"
             ELSE pc' = "check_react_spec" /\ report' = "none"
    /\ nprops' = nprops + 1
    /\ f_formula' = Nil /\ g_formula' = Nil /\ f_liveness' = FALSE
    /\ reach' = {} /\ new' = {} /\ recur' = {} /\ pre_reach' = {}
    /\ ret' = FALSE /\ outer' = 0
    /\ UNCHANGED <<bddFsm, result, raised>>

\* lines 222, 241: the database is exhausted
MainExit ==
    /\ pc = "main"
    /\ pc' = "exit"
    /\ UNCHANGED <<bddFsm, prop, nprops, frame, sets, ret, result, report, raised, outer>>

Next ==
    \/ MainNext \/ MainExit
    \/ CheckReactSpec \/ ReactCallLiveness \/ ReactFinish
    \/ ReachStep \/ ReachReturn
    \/ LiveOuterEnter \/ LiveOuterExit \/ LiveInnerStep \/ LiveInnerExit

Spec == Init /\ [][Next]_vars

(***************************************************************************)
(* The fixpoint algorithms on their own: compute_recheability, then        *)
(* check_liveness or check_persistently on the formula p, over every model *)
(* of the bounds.                                                          *)
(***************************************************************************)
InitFix ==
    /\ \E k \in 0..NumStates, T \in Relations, P \in SUBSET States :
          bddFsm = BddFsm(k, T, [a \in Atoms |-> IF a = "p" THEN P ELSE {}])
    /\ pc = "fix_start"
    /\ prop = NoProp /\ nprops = 0
    /\ f_formula = Atom("p") /\ g_formula = Nil /\ f_liveness = FALSE
    /\ reach = {} /\ new = {} /\ recur = {} /\ pre_reach = {}
    /\ ret = FALSE /\ result = Nil /\ report = "none" /\ raised = "none" /\ outer = 0

FixCallReach ==
    /\ pc = "fix_start"
    /\ EnterReach
    /\ UNCHANGED <<bddFsm, prop, nprops, frame, recur, pre_reach, ret, result, report,
                   raised, outer>>

FixCallLiveness ==
    /\ pc = "reach_ret"
    /\ EnterLiveness(f_formula)
    /\ UNCHANGED <<bddFsm, prop, nprops, frame, reach, new, pre_reach, ret, result,
                   report, outer>>

FixCallPersistently ==
    /\ pc = "reach_ret"
    /\ LET r == check_persistently(bddFsm, reach, f_formula)
       IN  IF r.kind = "raise"
           THEN pc' = "raised" /\ raised' = r.exc /\ ret' = ret
           ELSE pc' = "persist_ret" /\ raised' = raised /\ ret' = r.value
    /\ UNCHANGED <<bddFsm, prop, nprops, frame, sets, result, report, outer>>

NextFix ==
    \/ FixCallReach \/ FixCallLiveness \/ FixCallPersistently
    \/ ReachStep \/ ReachReturn
    \/ LiveOuterEnter \/ LiveOuterExit \/ LiveInnerStep \/ LiveInnerExit

SpecFix == InitFix /\ [][NextFix]_vars

(***************************************************************************)
(* The classifier functions on their own, over formula trees.              *)
(***************************************************************************)
RECURSIVE Formulas(_)
Formulas(d) ==
    IF d = 0 THEN {Atom("p"), Leaf("TRUE")}
    ELSE LET F == Formulas(d - 1)
         IN  F \cup {Un(t, x) : t \in {"NOT", "NEXT", "OP_GLOBAL", "OP_FUTURE"}, x \in F}
               \cup {Bin(t, x, y) : t \in {"AND", "IMPLIES", "EQUAL", "UNTIL"},
                                    x \in F, y \in F}

ClassifySides ==
    LET F == Formulas(MaxDepth - 1)
    IN  F \cup {GF(x) : x \in F}
          \cup {Un("OP_FUTURE", Un("OP_GLOBAL", x)) : x \in F}
          \cup {Un("OP_GLOBAL", Un("NEXT", x)) : x \in F}

ClassifyInputs ==
    Formulas(MaxDepth) \cup ClassifySides
    \cup {Ctx(Bin(op, l, r)) : op \in {"IMPLIES", "AND"},
                               l \in ClassifySides, r \in ClassifySides}

InitClassify ==
    /\ bddFsm = [init |-> {}, trans |-> {}, label |-> [a \in Atoms |-> {}]]
    /\ pc = "classify_start"
    /\ prop \in [type : {"LTL"}, expr : ClassifyInputs]
    /\ nprops = 0
    /\ f_formula = Nil /\ g_formula = Nil /\ f_liveness = FALSE
    /\ reach = {} /\ new = {} /\ recur = {} /\ pre_reach = {}
    /\ ret = FALSE /\ result = Nil /\ report = "none" /\ raised = "none" /\ outer = 0

CallIsBoolean ==
    /\ pc = "classify_start"
    /\ ret' = is_boolean_formula(prop.expr)
    /\ pc' = "is_boolean_ret"
    /\ UNCHANGED <<bddFsm, prop, nprops, frame, sets, result, report, raised, outer>>

CallCheckGF ==
    /\ pc = "classify_start"
    /\ result' = check_GF_formula(prop.expr)
    /\ pc' = "check_GF_ret"
    /\ UNCHANGED <<bddFsm, prop, nprops, frame, sets, ret, report, raised, outer>>

CallParseReact ==
    /\ pc = "classify_start"
    /\ result' = parse_react(prop.expr)
    /\ pc' = "parse_react_ret"
    /\ UNCHANGED <<bddFsm, prop, nprops, frame, sets, ret, report, raised, outer>>

NextClassify == CallIsBoolean \/ CallCheckGF \/ CallParseReact

SpecClassify == InitClassify /\ [][NextClassify]_vars

(***************************************************************************)
(* Reference definitions the claims are stated with.                       *)
(***************************************************************************)
\* the pairs <<s, t>> with a path of one or more transitions of R from s to t
RECURSIVE Closure(_, _)
Closure(R, k) ==
    IF k = 0 THEN R
    ELSE LET C == Closure(R, k - 1)
         IN  C \cup {<<s, t>> \in States \X States : <<s, k>> \in C /\ <<k, t>> \in C}

TransitiveClosure(R) == Closure(R, NumStates)

\* the states some path of zero or more transitions reaches from an initial state
Reachable ==
    bddFsm.init \cup {t \in States : \E s \in bddFsm.init :
                                        <<s, t>> \in TransitiveClosure(bddFsm.trans)}

\* a non-empty set of phi-states inside R, from each of which a path of one or
\* more transitions leads back into the set
RecurrentSetExists(R, phi) ==
    \E Z \in SUBSET (R \cap phi) :
        /\ Z # {}
        /\ \A s \in Z : \E t \in Z : <<s, t>> \in TransitiveClosure(bddFsm.trans)

\* a phi-state of R on a cycle: the lasso of an execution that visits phi
\* infinitely often
RecurrentCycleExists(R, phi) ==
    \E s \in R \cap phi : <<s, s>> \in TransitiveClosure(bddFsm.trans)

PhiF == spec_to_bdd(bddFsm, f_formula)

(***************************************************************************)
(* C7  compute_recheability returns exactly the states reachable from the  *)
(* initial states by zero or more transitions: none missing, none extra.   *)
(***************************************************************************)
C7_ReachIsExact == pc = "reach_ret" => reach = Reachable

\* reached: a return where the loop added states and left a state out
C7_Witness == pc = "reach_ret" /\ reach # bddFsm.init /\ reach # States

(***************************************************************************)
(* C4  check_liveness returns true if and only if reach holds a non-empty  *)
(* set of phi-states from each of which a path of one or more transitions  *)
(* leads back into the set, that is, if and only if some reachable         *)
(* execution visits phi infinitely often.                                  *)
(***************************************************************************)
C4_LivenessIsExact ==
    pc = "live_ret" =>
        /\ ret = RecurrentSetExists(reach, PhiF)
        /\ ret = RecurrentCycleExists(reach, PhiF)

\* reached: true is returned after recur lost a state that cannot come back
C4_Witness == pc = "live_ret" /\ ret /\ outer >= 2

(***************************************************************************)
(* C10  The fixpoint loops terminate: in compute_recheability reach        *)
(* strictly grows on every iteration but the last; in check_liveness recur *)
(* never grows and strictly shrinks on every outer iteration that does not *)
(* return, pre_reach strictly grows on every inner iteration that does not *)
(* return, the outer loop runs at most |States| times, and no loop is ever *)
(* stuck.                                                                  *)
(***************************************************************************)
Strictly(A, B) == A \subseteq B /\ A # B

C10_LoopsMakeProgress ==
    /\ [][/\ (pc = "reach_loop" /\ pc' = "reach_loop" /\ new' # {})
                => Strictly(reach, reach')
          /\ (pc \in {"live_outer", "live_inner"}) => recur' \subseteq recur
          /\ (pc = "live_inner" /\ pc' = "live_outer") => Strictly(recur', recur)
          /\ (pc = "live_inner" /\ pc' = "live_inner") => Strictly(pre_reach, pre_reach')
          /\ outer' <= Cardinality(States)]_vars
    /\ [](pc \in {"reach_loop", "live_outer", "live_inner"} => ENABLED NextFix)

\* reached: reach grew, and an outer iteration shrank recur without emptying it
C10_Witness ==
    pc = "live_outer" /\ outer >= 1 /\ recur # {} /\ reach # bddFsm.init

(***************************************************************************)
(* Reference definitions for persistence and for the verdict.              *)
(***************************************************************************)
\* recur := recur & pre(recur), iterated until it is stable
RECURSIVE PersistFixpoint(_)
PersistFixpoint(S) ==
    LET n == S \cap pre(bddFsm, S)
    IN  IF n = S THEN S ELSE PersistFixpoint(n)

\* a non-empty region of phi-states inside R that no transition leaves
TrapExists(R, phi) ==
    \E Z \in SUBSET (R \cap phi) :
        /\ Z # {}
        /\ \A s \in Z : post(bddFsm, {s}) # {} /\ post(bddFsm, {s}) \subseteq Z

EveryPhiStateLeaves(R, phi) ==
    \A s \in R \cap phi : post(bddFsm, {s}) \ phi # {}

PersistOver == pc \in {"persist_ret", "raised"}

(***************************************************************************)
(* C5  check_persistently completes and returns a boolean: false when      *)
(* reach & phi is empty, otherwise true exactly when recur := recur &      *)
(* pre(recur), iterated from reach & phi until stable, is not empty.       *)
(***************************************************************************)
C5_PersistentlyIsFixpoint ==
    PersistOver =>
        /\ pc = "persist_ret"
        /\ ret = (PersistFixpoint(reach \cap PhiF) # {})

(***************************************************************************)
(* C6  check_persistently returns true whenever reach holds a non-empty    *)
(* phi-closed trap region, and false whenever every reachable phi-state    *)
(* has a transition leaving phi.                                           *)
(***************************************************************************)
C6_PersistentlyFindsTrap ==
    PersistOver =>
        /\ TrapExists(reach, PhiF) => (pc = "persist_ret" /\ ret)
        /\ EveryPhiStateLeaves(reach, PhiF) => (pc = "persist_ret" /\ ~ret)

(***************************************************************************)
(* Reference definitions for the classifier.                               *)
(***************************************************************************)
temporalTypes == {"NEXT", "OP_GLOBAL", "OP_FUTURE", "UNTIL"}

Children(t) == IF "car" \in DOMAIN t THEN {t.car, t.cdr} \ {Nil} ELSE {}

RECURSIVE NodeTypes(_)
NodeTypes(t) == {t.type} \cup UNION {NodeTypes(c) : c \in Children(t)}

IsGF(x) ==
    /\ x.type = "OP_GLOBAL"
    /\ x.car.type = "OP_FUTURE"
    /\ is_boolean_formula(x.car.car)

IsReactive(e) ==
    /\ e.type = "CONTEXT"
    /\ e.cdr.type = "IMPLIES"
    /\ IsGF(e.cdr.car)
    /\ IsGF(e.cdr.cdr)

(***************************************************************************)
(* C8  is_boolean_formula returns true for every tree built only from      *)
(* atoms, comparisons, constants, Not and the binary boolean operators,    *)
(* and false for every tree with a Next, Global, Future, Until or Context  *)
(* node anywhere in it.                                                    *)
(***************************************************************************)
C8_IsBooleanIsExact ==
    pc = "is_boolean_ret" =>
        /\ NodeTypes(prop.expr) \subseteq basicTypes \cup booleanOp \cup {"NOT"} => ret
        /\ NodeTypes(prop.expr) \cap (temporalTypes \cup {"CONTEXT"}) # {} => ~ret

(***************************************************************************)
(* C3  parse_react returns the pair (f, g) if and only if the tree is      *)
(* Context(_, Implies(Global(Future(f)), Global(Future(g)))) with f and g  *)
(* boolean, and None for every other tree.                                 *)
(***************************************************************************)
C3_ParseReactIsExact ==
    pc = "parse_react_ret" =>
        result = IF IsReactive(prop.expr)
                 THEN [f |-> prop.expr.cdr.car.car.car, g |-> prop.expr.cdr.cdr.car.car]
                 ELSE PyNone

(***************************************************************************)
(* Reference definitions for the verdict of the main program.              *)
(***************************************************************************)
\* check_react_spec is over for the LTL property prop
CheckOver == prop.type = "LTL" /\ pc \in {"main", "raised", "exit"}

\* some execution from an initial state visits F infinitely often and G only
\* finitely often: a reachable state of F outside G on a cycle that avoids G
ViolatingExecution(F, G) ==
    \E s \in (Reachable \cap F) \ G :
        <<s, s>> \in TransitiveClosure({e \in bddFsm.trans : e[1] \notin G /\ e[2] \notin G})

(***************************************************************************)
(* C1  For a formula GF f -> GF g, check_react_spec reports Holds exactly  *)
(* when every execution from an initial state satisfies it, and Violated   *)
(* exactly when some execution visits f infinitely often and g only        *)
(* finitely often.                                                         *)
(***************************************************************************)
C1_VerdictIsSound ==
    (CheckOver /\ IsReactive(prop.expr)) =>
        LET bad == ViolatingExecution(spec_to_bdd(bddFsm, prop.expr.cdr.car.car.car),
                                      spec_to_bdd(bddFsm, prop.expr.cdr.cdr.car.car))
        IN  /\ report = "True" <=> ~bad
            /\ report = "False" <=> bad

(***************************************************************************)
(* C2  For a formula tree outside the fragment GF f -> GF g,               *)
(* check_react_spec returns None without raising and without a verdict,    *)
(* and the main loop reports the property as skipped and goes on.          *)
(***************************************************************************)
C2_NotApplicableIsSkipped ==
    (CheckOver /\ ~IsReactive(prop.expr)) =>
        /\ raised = "none"
        /\ report = "not a GR(1) formula, skipping"

(***************************************************************************)
(* C9  For a matched pair (f, g) the verdict is Holds exactly when         *)
(* not (fRecurs and gPermanentlyFails), the results of check_liveness on f *)
(* and of check_persistently on Not(g) over the same reach, and Violated   *)
(* otherwise.                                                              *)
(***************************************************************************)
C9_VerdictIsComposition ==
    (CheckOver /\ IsReactive(prop.expr)) =>
        LET gPermanentlyFails == check_persistently(bddFsm, reach, Invert(g_formula))
        IN  /\ gPermanentlyFails.kind = "return"
            /\ report = IF ~(f_liveness /\ gPermanentlyFails.value) THEN "True" ELSE "False"
====
